---- MODULE Spec2Model ----
(***************************************************************************)
(* tornado-swagger: the document-generation pipeline of                    *)
(* src/tornado_swagger/_builders.py.                                        *)
(*                                                                         *)
(* Strings of the program (route patterns, argument names, formatted       *)
(* paths) are sequences of characters.  A multi-character chunk that no    *)
(* operation of the program looks into ("/items/", "item_id") is one       *)
(* element of such a sequence.                                             *)
(***************************************************************************)
EXTENDS Integers, Sequences, FiniteSets, TLC

VARIABLES
    \* ---- the path formatter applied to one route and one method ----
    fmtPattern,     \* route.regex.pattern, a sequence of characters
    fmtArgs,        \* the declared arguments of the method after the first
    fmtResult,      \* [kind: "unset" | "none" | "path", path]
    fmtWarnings,    \* number of warnings.warn calls of the formatter
    \* ---- build_swagger_docs applied to one documentation text ----
    docText,        \* endpoint_doc, a sequence of lines
    docResult,      \* [kind: "unset"] or what the call returned
    \* ---- _extract_parameters_names applied to one method and one count ----
    sigParams,      \* the parameters the method declares after the first
    sigCount,       \* parameters_count
    sigResult,      \* [kind: "unset"] or [kind: "names", names, again]
    \* ---- the inputs of generate_doc_from_endpoints ----
    routes,         \* the route list: sequence of [pattern, target]
    dialect,        \* api_definition_version
    meta,           \* contact, security_definitions, security, ...
    \* ---- one generation call ----
    pc,             \* "idle" | "docs" | "pydantic" | "done" | "raised"
    pass,           \* number of generation calls started so far
    i,              \* index of the route the route loop is at
    j,              \* index of the method _build_doc_from_pydantic_handler is at
    out,            \* the dict "out" of _build_doc_from_pydantic_handler
    paths,          \* the paths mapping of the running call
    components,     \* PydanticRoutesProcessor.components of the running call
    result,         \* what the last call gave: [kind: "none" | "doc" | "error", ...]
    prev,           \* what the call before the last one gave
    \* ---- process-wide state ----
    schema_cache,   \* pydantic's per-class schema cache: "none" | "full" | "popped"
    warnings,       \* number of warnings.warn calls so far
    exported        \* number of registry exports (export_swagger_models/parameters)

fmtVars == <<fmtPattern, fmtArgs, fmtResult, fmtWarnings>>
genVars == <<routes, dialect, meta, pc, pass, i, j, out, paths, components,
             result, prev, schema_cache, warnings, exported>>
docVars == <<docText, docResult>>
sigVars == <<sigParams, sigCount, sigResult>>
unitVars == <<fmtVars, docVars, sigVars>>
vars == <<unitVars, genVars>>

\* ------------------------------------------------------------------ bounds
MaxPatLen == 5
MaxArgs == 2
MaxRoutes == 2
MaxPasses == 2
MaxDocLines == 3
MaxParams == 3
MaxCount == 3

\* ----------------------------------------------------------------- helpers
Min(S) == CHOOSE x \in S : \A y \in S : x <= y

Range(s) == {s[k] : k \in DOMAIN s}

SeqsUpTo(S, n) == UNION {[1..m -> S] : m \in 0..n}

EmptyDict == [x \in {} |-> x]

\* d[k] = v
DictSet(d, k, v) == (k :> v) @@ d

\* --------------------------------------------------- python's re, str, url
\* The characters a route pattern is written with: a literal, a piece of
\* regex body, the two parentheses, and the "?:" that makes the group it
\* follows a non-capturing one.
PatChars == {"/", "x", "(", ")", "?:"}

\* Nesting depth after each prefix of p.
RECURSIVE Depth(_, _)
Depth(p, n) ==
    IF n = 0 THEN 0
    ELSE Depth(p, n - 1) + (IF p[n] = "(" THEN 1 ELSE IF p[n] = ")" THEN -1 ELSE 0)

\* What re.compile accepts: balanced parentheses, "?:" only right after "(".
ValidPattern(p) ==
    /\ \A n \in 1..Len(p) : Depth(p, n) >= 0
    /\ Depth(p, Len(p)) = 0
    /\ \A n \in 1..Len(p) : p[n] = "?:" => (n > 1 /\ p[n - 1] = "(")

\* tornado.web.url / URLSpec: the pattern gets "$" appended unless it ends with it.
URLSpecPattern(p) ==
    IF Len(p) > 0 /\ p[Len(p)] = "$" THEN p ELSE Append(p, "$")

\* re: Pattern.groups, the number of capturing groups.
RegexGroups(p) ==
    Cardinality({n \in 1..Len(p) :
        p[n] = "(" /\ ~(n < Len(p) /\ p[n + 1] = "?:")})

\* re.compile(r"\(.*?\)").findall(p), scanning from position `from`.
RECURSIVE FindAllBrackets(_, _)
FindAllBrackets(p, from) ==
    LET opens == {n \in from..Len(p) : p[n] = "("} IN
    IF opens = {} THEN <<>>
    ELSE LET o == Min(opens)
             closes == {n \in (o + 1)..Len(p) : p[n] = ")"} IN
         IF closes = {} THEN <<>>
         ELSE LET c == Min(closes) IN
              <<SubSeq(p, o, c)>> \o FindAllBrackets(p, c + 1)

\* str.replace(old, new, 1): the first occurrence of old, if any.
StrReplaceFirst(s, old, new) ==
    LET at == {k \in 1..(Len(s) - Len(old) + 1) :
                  SubSeq(s, k, k + Len(old) - 1) = old} IN
    IF at = {} THEN s
    ELSE LET k == Min(at) IN
         SubSeq(s, 1, k - 1) \o new \o SubSeq(s, k + Len(old), Len(s))

\* ------------------------------------------------------ reflection extractor
Placeholder == <<"{", "?", "}">>

\* set(arg) != {"_"}
NotAllUnderscore(arg) == Range(arg) # {"_"}

\* the names that are not all underscores move up to the first slots
ExtractParametersNamesCompacting(args, parameters_count) ==
    LET kept == SelectSeq(args, NotAllUnderscore) IN
    IF parameters_count = 0 THEN <<>>
    ELSE [n \in 1..parameters_count |->
            IF n <= Len(kept) THEN kept[n] ELSE Placeholder]

\* _extract_parameters_names, given the result of _try_extract_args.
ExtractParametersNames(args, parameters_count) ==
    IF parameters_count = 0 THEN <<>>
    ELSE [n \in 1..parameters_count |->
            IF n <= Len(args) /\ NotAllUnderscore(args[n]) THEN args[n]
            ELSE Placeholder]

\* ------------------------------------------------------------ path formatter
\* "{%s}" % name
Braced(name) == <<"{">> \o name \o <<"}">>

\* the loop of _format_handler_path over enumerate(brackets), from index n
RECURSIVE ReplaceBrackets(_, _, _, _)
ReplaceBrackets(route_pattern, brackets, parameters, n) ==
    IF n > Len(brackets) THEN route_pattern
    ELSE ReplaceBrackets(
            StrReplaceFirst(route_pattern, brackets[n], Braced(parameters[n])),
            brackets, parameters, n + 1)

NoPath == [kind |-> "none"]

\* _format_handler_path(route, method), args being the method's arguments
FormatHandlerPath(pattern, args) ==
    LET parameters == ExtractParametersNames(args, RegexGroups(pattern))
        brackets == FindAllBrackets(pattern, 1) IN
    IF Len(brackets) # Len(parameters) THEN NoPath
    ELSE LET replaced == ReplaceBrackets(pattern, brackets, parameters, 1) IN
         [kind |-> "path", path |-> SubSeq(replaced, 1, Len(replaced) - 1)]

\* ------------------------------------------------------------ python values
\* None, "" and [] are the falsy values the inputs take; they are written as
\* the tokens "None", "" and "[]".
Truthy(v) == v \notin {"None", "", "[]", "{}"}

\* PYTHON_TO_OPENAPI_MAPPER, keyed by the name of the python type
MappedTypes == {"int", "float", "str", "bool", "list", "dict", "None", "bytes", "complex"}

PYTHON_TO_OPENAPI_MAPPER ==
    [t \in MappedTypes |->
        CASE t = "int" -> [type |-> "integer", format |-> "int32"]
          [] t = "float" -> [type |-> "number", format |-> "float"]
          [] t = "str" -> [type |-> "string", format |-> ""]
          [] t = "bool" -> [type |-> "boolean", format |-> ""]
          [] t = "list" -> [type |-> "array", format |-> ""]
          [] t = "dict" -> [type |-> "object", format |-> ""]
          [] t = "None" -> [type |-> "nullable", format |-> ""]
          [] t = "bytes" -> [type |-> "string", format |-> "byte"]
          [] t = "complex" -> [type |-> "number", format |-> "double"]]

\* ------------------------------------------------- the application's models
\* The pydantic classes of an application.  name is cls.__name__ (two classes
\* of different modules can share it), definitions the classes whose schemas
\* cls.schema() nests under "definitions" (each under its own __name__),
\* properties the fields the schema lists, with whether each is required.
ModelTable ==
    [NestedResponse   |-> [name |-> "NestedResponse",
                           definitions |-> <<"NestedItem", "Tier2NestedItem">>,
                           properties |-> <<>>],
     NestedItem       |-> [name |-> "NestedItem",
                           definitions |-> <<"Tier2NestedItem">>,
                           properties |-> <<>>],
     Tier2NestedItem  |-> [name |-> "Tier2NestedItem", definitions |-> <<>>,
                           properties |-> <<>>],
     CalculusResponse |-> [name |-> "CalculusResponse", definitions |-> <<>>,
                           properties |-> <<>>],
     ErrorResponse    |-> [name |-> "ErrorResponse", definitions |-> <<>>,
                           properties |-> <<>>],
     ErrorResponseV2  |-> [name |-> "ErrorResponse", definitions |-> <<>>,
                           properties |-> <<>>],
     Report           |-> [name |-> "Report",
                           definitions |-> <<"ErrorResponse">>,
                           properties |-> <<>>],
     CalculusRequest  |-> [name |-> "CalculusRequest",
                           definitions |-> <<"CalculusOperation">>,
                           properties |-> <<>>],
     CalculusOperation |-> [name |-> "CalculusOperation", definitions |-> <<>>,
                           properties |-> <<>>],
     CalculusQuery    |-> [name |-> "CalculusQuery", definitions |-> <<>>,
                           properties |-> <<[name |-> "i_am_cool", required |-> FALSE],
                                            [name |-> "precision", required |-> TRUE]>>]]

ModelClasses == DOMAIN ModelTable

\* --------------------------------------------------- docstring extraction
\* A docstring is a sequence of lines; what the program (and yaml) tells apart
\* in a line is its kind:
\*   "sep"  the line "---" (SWAGGER_DOC_SEPARATOR)
\*   "map"  a "key: value" line of a yaml mapping
\*   "txt"  a line of plain text
\*   "bad"  a line yaml cannot scan, such as "key: [oops"
\*   "tab"  a "key:<TAB>value" line: yaml cannot scan it as it stands, and it is
\*          a "map" line once the tab is four spaces
DocLineKinds == {"sep", "map", "txt", "bad", "tab"}

\* SWAGGER_DOC_SEPARATOR in doc_line
HasSeparator(lines) == \E n \in 1..Len(lines) : lines[n] = "sep"

\* _extract_swagger_definition: the lines after the first separator line, or
\* all of them when there is none
ExtractSwaggerDefinition(lines) ==
    IF HasSeparator(lines)
    THEN SubSeq(lines, Min({n \in 1..Len(lines) : lines[n] = "sep"}) + 1, Len(lines))
    ELSE lines

\* yaml.safe_load followed by isinstance(..., dict): "mapping" when the text is
\* one document holding a mapping, "other" when it loads to something else
\* (nothing, a string), "error" when yaml raises (an unscannable line, text
\* mixed with mapping entries, a second document).
YamlSafeLoad(lines) ==
    LET body == IF Len(lines) > 0 /\ lines[1] = "sep" THEN Tail(lines) ELSE lines IN
    IF \E n \in 1..Len(body) : body[n] \in {"bad", "sep", "tab"} THEN "error"
    ELSE IF body = <<>> THEN "other"
    ELSE IF \A n \in 1..Len(body) : body[n] = "map" THEN "mapping"
    ELSE IF \A n \in 1..Len(body) : body[n] = "txt" THEN "other"
    ELSE "error"

FallbackFragment ==
    [description |-> "Swagger document could not be loaded from docstring",
     tags |-> <<"Invalid Swagger">>]

\* endpoint_doc.replace("\t", "    ")
ReplaceTabs(lines) == [n \in 1..Len(lines) |-> IF lines[n] = "tab" THEN "map" ELSE lines[n]]

\* build_swagger_docs: the parsed mapping (held as the lines it was parsed
\* from), or the fallback fragment
BuildSwaggerDocs(lines) ==
    LET endpoint_doc == ReplaceTabs(ExtractSwaggerDefinition(lines)) IN
    IF YamlSafeLoad(endpoint_doc) = "mapping"
    THEN [mapping |-> SelectSeq(endpoint_doc, LAMBDA l : l = "map")]
    ELSE FallbackFragment

\* ----------------------------------------------- the application's handlers
\* handler.SUPPORTED_METHODS, lower-cased, in tornado's order (two of them)
Methods == <<"get", "post">>

NoDoc == [has |-> FALSE, lines |-> <<>>]
Doc(lines) == [has |-> TRUE, lines |-> lines]
NoInfo == [has |-> FALSE]
NoModel == [has |-> FALSE, cls |-> "None"]
Model(c) == [has |-> TRUE, cls |-> c]

\* one entry of SwaggerMethodInfo.responses: {"model": ..., "description": ...}
Response(code, model, description) ==
    [code |-> code, model |-> model, description |-> description]

\* a declared argument after self: its name, annotation and kind
\* ("pos": positional, "var": *args or **kwargs)
Param(name, type, kind) == [name |-> name, type |-> type, kind |-> kind]

\* tornado's RequestHandler._unimplemented_method(self, *args, **kwargs)
Unimplemented ==
    [params |-> <<Param(<<"args">>, "empty", "var"), Param(<<"kwargs">>, "empty", "var")>>,
     doc |-> NoDoc, info |-> NoInfo]

HandlerTable ==
    [ItemHandler |->
        [get  |-> [params |-> <<Param(<<"item_id">>, "empty", "pos")>>,
                   doc |-> Doc(<<"txt", "sep", "map", "map">>), info |-> NoInfo],
         post |-> [params |-> <<Param(<<"_">>, "empty", "pos")>>,
                   doc |-> Doc(<<"txt", "txt">>), info |-> NoInfo]],
     CalculusHandler |->
        [get  |-> Unimplemented,
         post |-> [params |-> <<Param(<<"term_one">>, "int", "pos"),
                                Param(<<"term_two">>, "int", "pos")>>,
                   doc |-> NoDoc,
                   info |-> [has |-> TRUE,
                             responses |-> <<Response(200, Model("CalculusResponse"), "None"),
                                             Response(400, Model("ErrorResponse"),
                                                      "Error will be raised for negative result")>>,
                             request |-> Model("CalculusRequest"),
                             query |-> Model("CalculusQuery"),
                             tags |-> "[Calculus]"]]],
     NestedResponseHandler |->
        [get  |-> [params |-> <<>>,
                   doc |-> Doc(<<"txt">>),
                   info |-> [has |-> TRUE,
                             responses |-> <<Response(200, Model("NestedResponse"),
                                                      "Response with nested models")>>,
                             request |-> NoModel, query |-> NoModel,
                             tags |-> "[Nested]"]],
         post |-> [params |-> <<>>,
                   doc |-> Doc(<<"sep", "map">>), info |-> NoInfo]],
     ReportHandler |->
        [get  |-> [params |-> <<Param(<<"year">>, "int", "pos")>>,
                   doc |-> NoDoc,
                   info |-> [has |-> TRUE,
                             responses |-> <<Response(404, Model("ErrorResponseV2"), ""),
                                             Response(500, Model("Report"), "None"),
                                             Response(499, Model("ErrorResponseV2"), "None"),
                                             Response(400, Model("ErrorResponseV2"), "None"),
                                             Response(399, Model("Report"), "None")>>,
                             request |-> NoModel, query |-> NoModel,
                             tags |-> "None"]],
         post |-> Unimplemented],
     UntypedHandler |->
        [get  |-> [params |-> <<Param(<<"item_id">>, "empty", "pos")>>,
                   doc |-> Doc(<<"sep", "map">>),
                   info |-> [has |-> TRUE,
                             responses |-> <<Response(200, Model("CalculusResponse"), "None")>>,
                             request |-> NoModel, query |-> NoModel,
                             tags |-> "None"]],
         post |-> Unimplemented],
     NoModelHandler |->
        [get  |-> [params |-> <<>>,
                   doc |-> Doc(<<"txt", "sep", "map", "bad">>), info |-> NoInfo],
         post |-> [params |-> <<>>,
                   doc |-> NoDoc,
                   info |-> [has |-> TRUE,
                             responses |-> <<Response(200, Model("NestedResponse"), "None"),
                                             Response(499, NoModel, "client closed")>>,
                             request |-> NoModel, query |-> NoModel,
                             tags |-> "None"]]]]

Handlers == DOMAIN HandlerTable

\* inspect.getfullargspec(f).args[1:] of a method declaring params after its
\* first argument: the names of the positional ones
FullArgSpecArgs(params) ==
    LET pos == SelectSeq(params, LAMBDA a : a.kind = "pos") IN
    [n \in 1..Len(pos) |-> pos[n].name]

\* _try_extract_doc(getattr(handler, method))
TryExtractDoc(handler, method) == HandlerTable[handler][method].doc

\* _try_extract_args: inspect.getfullargspec(...).args[1:], the names of the
\* positional arguments after the first
TryExtractArgs(handler, method) == FullArgSpecArgs(HandlerTable[handler][method].params)

\* input_parameters_getter: every parameter of the signature but self and cls
InputParametersGetter(handler, method) ==
    LET ps == SelectSeq(HandlerTable[handler][method].params,
                        LAMBDA a : a.name \notin {<<"self">>, <<"cls">>}) IN
    [n \in 1..Len(ps) |-> [name |-> ps[n].name, type |-> ps[n].type]]

\* every method with a docstring gets an operation, separator or not
BuildDocFromFuncDocAnyDoc(handler) ==
    LET with == {n \in 1..Len(Methods) : TryExtractDoc(handler, Methods[n]).has} IN
    [m \in {Methods[n] : n \in with} |-> BuildSwaggerDocs(TryExtractDoc(handler, m).lines)]

\* the methods carrying Swagger Method Info get an operation as well
BuildDocFromFuncDocOrInfo(handler) ==
    LET with == {n \in 1..Len(Methods) :
                    LET doc == TryExtractDoc(handler, Methods[n]) IN
                    \/ doc.has /\ HasSeparator(doc.lines)
                    \/ HandlerTable[handler][Methods[n]].info.has} IN
    [m \in {Methods[n] : n \in with} |-> BuildSwaggerDocs(TryExtractDoc(handler, m).lines)]

\* _build_doc_from_func_doc: method -> operation, for the methods whose
\* docstring exists and contains the separator
BuildDocFromFuncDoc(handler) ==
    LET with == {n \in 1..Len(Methods) :
                    LET doc == TryExtractDoc(handler, Methods[n]) IN
                    doc.has /\ HasSeparator(doc.lines)} IN
    [m \in {Methods[n] : n \in with} |-> BuildSwaggerDocs(TryExtractDoc(handler, m).lines)]

\* --------------------------------------------------------- pydantic schemas
\* cls.schema(by_alias, ref_template) returns the dict pydantic keeps in the
\* class's __schema_cache__, building it on the first call: every later call
\* returns the same object.  schema_cache[cls] is "none" before the first
\* call, "full" while the cached dict is as pydantic built it, "popped" once
\* the program has popped its "definitions" key (lines 179 and 203).
FreshCache == [c \in ModelClasses |-> "none"]

\* the state of the cache after cls.schema()
SchemaCall(cache, c) ==
    IF cache[c] = "none" THEN [cache EXCEPT ![c] = "full"] ELSE cache

\* "definitions" in model_spec, for the dict the cache holds for c
HasDefinitions(cache, c) ==
    cache[c] = "full" /\ ModelTable[c].definitions # <<>>

\* model_spec.pop("definitions")
PopDefinitions(cache, c) == [cache EXCEPT ![c] = "popped"]

\* A schema fragment held in components.schemas or in a request body: the
\* cached dict of class cls itself (byRef), or the fragment for cls that was
\* nested in another class's "definitions".
SpecObject(c) == [cls |-> c, byRef |-> TRUE]
NestedSpec(c) == [cls |-> c, byRef |-> FALSE]

\* what a fragment holds, given the state of the cached dicts
FragmentView(cache, frag) ==
    [schema |-> frag.cls,
     definitions |-> frag.byRef /\ HasDefinitions(cache, frag.cls)]

\* lines 151-152: one definition, first write wins
RegisterDefinition(schemas, definition_name, definition_spec) ==
    IF definition_name \notin DOMAIN schemas
    THEN DictSet(schemas, definition_name, definition_spec)
    ELSE schemas

\* _add_components_from_definitions, from the n-th definition on
RECURSIVE AddComponentsFromDefinitions(_, _, _)
AddComponentsFromDefinitions(schemas, definitions, n) ==
    IF n > Len(definitions) THEN schemas
    ELSE AddComponentsFromDefinitions(
            RegisterDefinition(schemas, ModelTable[definitions[n]].name,
                               NestedSpec(definitions[n])),
            definitions, n + 1)

\* the response model stored without the membership test
RegisterModelOverwrite(schemas, model_name, model_spec) ==
    DictSet(schemas, model_name, model_spec)

\* lines 199-200: a response model, first write wins
RegisterModel(schemas, model_name, model_spec) ==
    IF model_name \notin DOMAIN schemas
    THEN DictSet(schemas, model_name, model_spec)
    ELSE schemas

\* the first comparison made inclusive
GenerateDefaultDescriptionInclusive(status_code) ==
    IF status_code <= 400 THEN "Successful Response"
    ELSE IF status_code < 500 THEN "Bad request"
    ELSE "Internal Server Error"

\* _generate_default_description
GenerateDefaultDescription(status_code) ==
    IF status_code < 400 THEN "Successful Response"
    ELSE IF status_code < 500 THEN "Bad request"
    ELSE "Internal Server Error"

\* lines 193-195: the description of a response entry
ResponseDescription(status_code, description) ==
    IF ~Truthy(description) THEN GenerateDefaultDescription(status_code)
    ELSE description

\* _build_input_and_query_doc: [raised, parameters, cache].  Raises KeyError at
\* the first path argument whose annotation PYTHON_TO_OPENAPI_MAPPER lacks.
BuildInputAndQueryDoc(cache, input_parameters, query) ==
    IF \E n \in 1..Len(input_parameters) : input_parameters[n].type \notin MappedTypes
    THEN [raised |-> TRUE, parameters |-> <<>>, cache |-> cache]
    ELSE LET inputs == [n \in 1..Len(input_parameters) |->
                          [in |-> "path", required |-> TRUE,
                           name |-> input_parameters[n].name,
                           schema |-> PYTHON_TO_OPENAPI_MAPPER[input_parameters[n].type]]]
             props == IF query.has THEN ModelTable[query.cls].properties ELSE <<>>
             queries == [n \in 1..Len(props) |->
                          [in |-> "query", required |-> props[n].required,
                           name |-> <<props[n].name>>,
                           schema |-> [type |-> "property", format |-> props[n].name]]] IN
         [raised |-> FALSE,
          parameters |-> inputs \o queries,
          cache |-> IF query.has THEN SchemaCall(cache, query.cls) ELSE cache]

\* lines 176-188: the request model.  acc is [schemas, cache].
BuildRequest(acc, request) ==
    IF ~request.has THEN acc
    ELSE LET called == SchemaCall(acc.cache, request.cls) IN
         IF HasDefinitions(called, request.cls)
         THEN [schemas |-> AddComponentsFromDefinitions(
                               acc.schemas, ModelTable[request.cls].definitions, 1),
               cache |-> PopDefinitions(called, request.cls)]
         ELSE [schemas |-> acc.schemas, cache |-> called]

\* lines 191-212: the loop over response_models.items(), from the n-th entry
\* on.  acc is [raised, schemas, cache, responses].  Raises KeyError at an
\* entry without "model".
RECURSIVE BuildResponses(_, _, _)
BuildResponses(acc, response_models, n) ==
    IF n > Len(response_models) \/ acc.raised THEN acc
    ELSE LET e == response_models[n] IN
         IF ~e.model.has THEN [acc EXCEPT !.raised = TRUE]
         ELSE LET model == e.model.cls
                  model_name == ModelTable[model].name
                  called == SchemaCall(acc.cache, model)
                  registered == RegisterModel(acc.schemas, model_name, SpecObject(model))
                  pops == HasDefinitions(called, model) IN
              BuildResponses(
                 [raised |-> FALSE,
                  schemas |-> IF pops
                              THEN AddComponentsFromDefinitions(
                                      registered, ModelTable[model].definitions, 1)
                              ELSE registered,
                  cache |-> IF pops THEN PopDefinitions(called, model) ELSE called,
                  responses |-> DictSet(acc.responses, e.code,
                                   [description |-> ResponseDescription(e.code, e.description),
                                    ref |-> model_name])],
                 response_models, n + 1)

\* build_pydantic_docs: [raised, schemas, cache, result]
BuildPydanticDocs(schemas, cache, input_parameters, info) ==
    LET params == BuildInputAndQueryDoc(cache, input_parameters, info.query) IN
    IF params.raised
    THEN [raised |-> TRUE, schemas |-> schemas, cache |-> cache, result |-> EmptyDict]
    ELSE LET req == BuildRequest([schemas |-> schemas, cache |-> params.cache], info.request)
             resp == BuildResponses([raised |-> FALSE, schemas |-> req.schemas,
                                     cache |-> req.cache, responses |-> EmptyDict],
                                    info.responses, 1)
             operation ==
                 (IF params.parameters # <<>>
                  THEN [parameters |-> params.parameters] ELSE EmptyDict)
                 @@ (IF info.request.has
                     THEN [requestBody |-> [schema |-> SpecObject(info.request.cls),
                                            required |-> TRUE]]
                     ELSE EmptyDict)
                 @@ [responses |-> resp.responses]
                 @@ (IF Truthy(info.tags) THEN [tags |-> info.tags] ELSE EmptyDict) IN
         [raised |-> resp.raised, schemas |-> resp.schemas, cache |-> resp.cache,
          result |-> IF resp.raised THEN EmptyDict ELSE operation]

\* ------------------------------------------------------------ route loops
\* lines 117-121 and 327-331: the operations of one route enter the paths
\* mapping, method by method from the n-th on; acc is [paths, warnings]
RECURSIVE EmitOperations(_, _, _, _)
EmitOperations(acc, route, operations, n) ==
    IF n > Len(Methods) THEN acc
    ELSE IF Methods[n] \notin DOMAIN operations
    THEN EmitOperations(acc, route, operations, n + 1)
    ELSE LET method_name == Methods[n]
             path_handler == FormatHandlerPath(route.pattern,
                                               TryExtractArgs(route.target, method_name)) IN
         IF path_handler.kind = "none"
         THEN EmitOperations([acc EXCEPT !.warnings = @ + 1], route, operations, n + 1)
         ELSE LET p == path_handler.path
                  had == IF p \in DOMAIN acc.paths THEN acc.paths[p] ELSE EmptyDict IN
              EmitOperations(
                 [acc EXCEPT !.paths = DictSet(acc.paths, p,
                                         DictSet(had, method_name, operations[method_name]))],
                 route, operations, n + 1)

\* ---------------------------------------------------------- dialect builders
\* b.schema of the three builders of doc_builders: the values of
\* API_SWAGGER_2, API_OPENAPI_3 and API_OPENAPI_3_PYDANTIC
SwaggerSchema == "API_SWAGGER_2"
OpenApiSchema == "API_OPENAPI_3"
PydanticSchema == "API_OPENAPI_3_PYDANTIC"

\* the keys of doc_builders
DocBuilders == {SwaggerSchema, OpenApiSchema, PydanticSchema}

\* the check made against the identifiers callers use instead of the registry
UnknownVersionLoose(api_definition_version) ==
    api_definition_version \notin DocBuilders \cup {"not-a-real-dialect"}

\* api_definition_version not in doc_builders
UnknownVersion(api_definition_version) == api_definition_version \notin DocBuilders

\* the ValueError of generate_doc_from_endpoints
UnknownVersionError(api_definition_version) ==
    [kind |-> "error", type |-> "ValueError",
     message |-> <<"Unknown api_definition_version = ", api_definition_version>>]

\* export_swagger_models() and export_swagger_parameters(): the declared
\* models and parameters, keyed by name; a read of the process-wide registry
ExportSwaggerModels == [PostModel |-> [schema |-> "PostModel"]]
ExportSwaggerParameters == [ItemId |-> [schema |-> "ItemId"]]

\* _clean_description on a description given as a sequence of characters:
\* the text from the first character that is not a line break (from the start
\* when there is none), its lines joined by four spaces
CleanDescription(description) ==
    LET firsts == {n \in 1..Len(description) : description[n] # "\n"}
        from == IF firsts = {} THEN 1 ELSE Min(firsts)
        text == SubSeq(description, from, Len(description))
        kept == IF Len(text) > 0 /\ text[Len(text)] = "\n"
                THEN SubSeq(text, 1, Len(text) - 1) ELSE text IN
    [n \in 1..Len(kept) |-> IF kept[n] = "\n" THEN "    " ELSE kept[n]]

\* swagger_spec["info"], with the contact when one is given
DocInfo(m) ==
    [title |-> m.title, description |-> CleanDescription(m.description),
     version |-> m.api_version]
    @@ (IF Truthy(m.contact) THEN [contact |-> [name |-> m.contact]] ELSE EmptyDict)

\* the security blocks emitted whether supplied or not
WithSecurityPlaceholders(swagger_spec, m) ==
    swagger_spec
    @@ [securityDefinitions |-> m.security_definitions, security |-> m.security]

\* the three if-statements closing every generate_doc
WithSecurity(swagger_spec, m) ==
    swagger_spec
    @@ (IF Truthy(m.security_definitions)
        THEN [securityDefinitions |-> m.security_definitions] ELSE EmptyDict)
    @@ (IF Truthy(m.security) THEN [security |-> m.security] ELSE EmptyDict)

\* Swagger2DocBuilder.generate_doc, given the result of _extract_paths
Swagger2Doc(m, extracted) ==
    WithSecurity(
        [swagger |-> "2.0", info |-> DocInfo(m), basePath |-> m.api_base_url,
         schemes |-> m.schemes, definitions |-> ExportSwaggerModels,
         parameters |-> ExportSwaggerParameters, paths |-> extracted], m)

\* OpenApiDocBuilder.generate_doc, given the result of _extract_paths
OpenApiDoc(m, extracted) ==
    WithSecurity(
        [openapi |-> "3.0.3", info |-> DocInfo(m),
         servers |-> <<[url |-> m.api_base_url]>>,
         components |-> [schemas |-> ExportSwaggerModels,
                         parameters |-> ExportSwaggerParameters],
         paths |-> extracted], m)

\* PydanticBuilder.generate_doc, given the result of extract_paths_pydantic
PydanticDoc(m, extracted, comps) ==
    WithSecurity(
        [openapi |-> "3.0.3", info |-> DocInfo(m),
         servers |-> <<[url |-> m.api_base_url]>>,
         components |-> comps, paths |-> extracted], m)

\* PydanticRoutesProcessor.__init__: self.components
FreshComponents == [schemas |-> EmptyDict, parameters |-> EmptyDict]

\* ------------------------------------------------------------------ inputs
Route(pattern, target) == [pattern |-> URLSpecPattern(pattern), target |-> target]

\* the routes an application registers
SampleRoutes ==
    {Route(<<"/items/", "(", "?P<item_id>[0-9]+", ")">>, "ItemHandler"),
     Route(<<"/items/", "(", "(", "x", ")", "x", ")", "/raw">>, "ItemHandler"),
     Route(<<"/term-one/", "(", "x", ")", "/term-two/", "(", "x", ")", "/sum">>,
           "CalculusHandler"),
     Route(<<"/status">>, "NestedResponseHandler"),
     Route(<<"/report/", "(", "x", ")">>, "ReportHandler"),
     Route(<<"/report/", "(", "?:", "x", ")", "/all">>, "ReportHandler"),
     Route(<<"/report">>, "ReportHandler"),
     Route(<<"/status/", "(", "?:", "x", ")">>, "NestedResponseHandler"),
     Route(<<"/untyped/", "(", "x", ")">>, "UntypedHandler"),
     Route(<<"/nomodel">>, "NoModelHandler")}

\* the identifiers a caller passes as api_definition_version
Dialects == DocBuilders \cup {"not-a-real-dialect"}

\* the keyword arguments of export_swagger / setup_swagger
Metas ==
    [api_base_url : {"/"},
     description : {<<"\n", "\n", "Swagger", "\n", "API", "\n">>},
     api_version : {"1.0.0"},
     title : {"Swagger API"},
     contact : {"", "name@domain"},
     schemes : {"None"},
     security_definitions : {"None", "{api_key}"},
     security : {"[]", "[api_key]"}]

NoResult == [kind |-> "none"]

\* --------------------------------------------------------------- generation
GenIdle ==
    /\ pc = "idle" /\ pass = 0 /\ i = 1 /\ j = 1
    /\ out = EmptyDict /\ paths = EmptyDict /\ components = FreshComponents
    /\ result = NoResult /\ prev = NoResult
    /\ schema_cache = FreshCache /\ warnings = 0 /\ exported = 0

FmtIdle ==
    /\ fmtPattern = <<"$">> /\ fmtArgs = <<>>
    /\ fmtResult = [kind |-> "unset"] /\ fmtWarnings = 0

DocIdle == docText = <<>> /\ docResult = [kind |-> "unset"]

SigIdle == sigParams = <<>> /\ sigCount = 0 /\ sigResult = [kind |-> "unset"]

Init ==
    /\ routes \in SeqsUpTo(SampleRoutes, MaxRoutes)
    /\ dialect \in Dialects
    /\ meta \in Metas
    /\ GenIdle
    /\ FmtIdle
    /\ DocIdle
    /\ SigIdle

\* generate_doc_from_endpoints up to the builder's first statement: the check
\* of the identifier, then the two registry exports and a fresh builder state
Generate ==
    /\ pc \in {"idle", "done", "raised"}
    /\ pass < MaxPasses
    /\ pass' = pass + 1
    /\ prev' = result
    /\ IF UnknownVersion(dialect)
       THEN /\ pc' = "raised"
            /\ result' = UnknownVersionError(dialect)
            /\ UNCHANGED <<i, j, out, paths, components, exported>>
       ELSE /\ pc' = IF dialect = PydanticSchema THEN "pydantic" ELSE "docs"
            /\ result' = NoResult
            /\ exported' = exported + 2
            /\ i' = 1 /\ j' = 1 /\ out' = EmptyDict
            /\ paths' = EmptyDict /\ components' = FreshComponents
    /\ UNCHANGED <<routes, dialect, meta, schema_cache, warnings, unitVars>>

\* _extract_paths: one iteration of the loop over routes
ExtractPaths ==
    /\ pc = "docs"
    /\ i <= Len(routes)
    /\ LET acc == EmitOperations([paths |-> paths, warnings |-> warnings], routes[i],
                                 BuildDocFromFuncDoc(routes[i].target), 1) IN
          /\ paths' = acc.paths
          /\ warnings' = acc.warnings
    /\ i' = i + 1
    /\ UNCHANGED <<routes, dialect, meta, pc, pass, j, out, components, result, prev,
                   schema_cache, exported, unitVars>>

\* Swagger2DocBuilder.generate_doc returns
Swagger2GenerateDoc ==
    /\ pc = "docs"
    /\ i > Len(routes)
    /\ dialect = SwaggerSchema
    /\ result' = [kind |-> "doc", doc |-> Swagger2Doc(meta, paths)]
    /\ pc' = "done"
    /\ UNCHANGED <<routes, dialect, meta, pass, i, j, out, paths, components, prev,
                   schema_cache, warnings, exported, unitVars>>

\* OpenApiDocBuilder.generate_doc returns
OpenApiGenerateDoc ==
    /\ pc = "docs"
    /\ i > Len(routes)
    /\ dialect # SwaggerSchema
    /\ result' = [kind |-> "doc", doc |-> OpenApiDoc(meta, paths)]
    /\ pc' = "done"
    /\ UNCHANGED <<routes, dialect, meta, pass, i, j, out, paths, components, prev,
                   schema_cache, warnings, exported, unitVars>>

\* _build_doc_from_pydantic_handler: one iteration of the loop over
\* SUPPORTED_METHODS, for the handler of route i
BuildDocFromPydanticHandler ==
    /\ pc = "pydantic"
    /\ i <= Len(routes)
    /\ j <= Len(Methods)
    /\ LET handler == routes[i].target
           method_name == Methods[j]
           swagger_info == HandlerTable[handler][method_name].info IN
       IF ~swagger_info.has
       THEN /\ j' = j + 1
            /\ UNCHANGED <<pc, out, components, result, schema_cache>>
       ELSE LET built == BuildPydanticDocs(components.schemas, schema_cache,
                             InputParametersGetter(handler, method_name), swagger_info) IN
            /\ schema_cache' = built.cache
            /\ components' = [components EXCEPT !.schemas = built.schemas]
            /\ IF built.raised
               THEN /\ pc' = "raised"
                    /\ result' = [kind |-> "error", type |-> "KeyError", message |-> <<>>]
                    /\ UNCHANGED <<j, out>>
               ELSE /\ out' = DictSet(out, method_name, built.result)
                    /\ j' = j + 1
                    /\ UNCHANGED <<pc, result>>
    /\ UNCHANGED <<routes, dialect, meta, pass, i, paths, prev, warnings, exported, unitVars>>

\* extract_paths_pydantic: the loop over the operations built for route i
ExtractPathsPydantic ==
    /\ pc = "pydantic"
    /\ i <= Len(routes)
    /\ j > Len(Methods)
    /\ LET acc == EmitOperations([paths |-> paths, warnings |-> warnings],
                                 routes[i], out, 1) IN
          /\ paths' = acc.paths
          /\ warnings' = acc.warnings
    /\ i' = i + 1
    /\ j' = 1
    /\ out' = EmptyDict
    /\ UNCHANGED <<routes, dialect, meta, pc, pass, components, result, prev,
                   schema_cache, exported, unitVars>>

\* PydanticBuilder.generate_doc returns
PydanticGenerateDoc ==
    /\ pc = "pydantic"
    /\ i > Len(routes)
    /\ result' = [kind |-> "doc", doc |-> PydanticDoc(meta, paths, components)]
    /\ pc' = "done"
    /\ UNCHANGED <<routes, dialect, meta, pass, i, j, out, paths, components, prev,
                   schema_cache, warnings, exported, unitVars>>

Next ==
    \/ Generate
    \/ ExtractPaths
    \/ Swagger2GenerateDoc
    \/ OpenApiGenerateDoc
    \/ BuildDocFromPydanticHandler
    \/ ExtractPathsPydantic
    \/ PydanticGenerateDoc

Spec == Init /\ [][Next]_vars

\* ------------------------------------------- the path formatter on its own
\* the argument names a method declares
ArgNames == {<<"a">>, <<"b">>, <<"_">>, <<"_", "_">>, <<"_", "a">>}

ExamplePattern == <<"/items/", "(", "?P<item_id>[0-9]+", ")">>

FmtPatterns ==
    {p \in SeqsUpTo(PatChars, MaxPatLen) : ValidPattern(p)} \cup {ExamplePattern}

FmtArgLists == SeqsUpTo(ArgNames, MaxArgs) \cup {<<<<"item_id">>>>}

FmtInit ==
    /\ fmtPattern \in {URLSpecPattern(p) : p \in FmtPatterns}
    /\ fmtArgs \in FmtArgLists
    /\ fmtResult = [kind |-> "unset"]
    /\ fmtWarnings = 0
    /\ routes = <<>> /\ dialect = SwaggerSchema
    /\ meta \in {m \in Metas : ~Truthy(m.contact) /\ ~Truthy(m.security)
                                /\ ~Truthy(m.security_definitions)}
    /\ GenIdle
    /\ DocIdle
    /\ SigIdle

\* _format_handler_path on the route and the method
FormatPath ==
    /\ fmtResult.kind = "unset"
    /\ fmtResult' = FormatHandlerPath(fmtPattern, fmtArgs)
    /\ fmtWarnings' = IF fmtResult'.kind = "none" THEN fmtWarnings + 1 ELSE fmtWarnings
    /\ UNCHANGED <<fmtPattern, fmtArgs, genVars, docVars, sigVars>>

FmtNext == FormatPath

FmtSpec == FmtInit /\ [][FmtNext]_vars

\* ------------------------------------- the docstring extractor on its own
GenQuiet ==
    /\ routes = <<>> /\ dialect = SwaggerSchema
    /\ meta \in {m \in Metas : ~Truthy(m.contact) /\ ~Truthy(m.security)
                                /\ ~Truthy(m.security_definitions)}
    /\ GenIdle

DocTexts == SeqsUpTo(DocLineKinds, MaxDocLines)

DocInit ==
    /\ docText \in DocTexts
    /\ docResult = [kind |-> "unset"]
    /\ GenQuiet
    /\ FmtIdle
    /\ SigIdle

\* build_swagger_docs(endpoint_doc)
BuildDocs ==
    /\ docResult.kind = "unset"
    /\ docResult' = [kind |-> "returned", value |-> BuildSwaggerDocs(docText)]
    /\ UNCHANGED <<docText, genVars, fmtVars, sigVars>>

DocNext == BuildDocs

DocSpec == DocInit /\ [][DocNext]_vars

\* --------------------------------------- the reflection extractor on its own
\* what a method can declare after its first argument: distinct names,
\* the positional arguments before *args and **kwargs
SigNames == {<<"a">>, <<"b">>, <<"_">>, <<"_", "_">>, <<"_", "a">>}

Signatures ==
    {ps \in SeqsUpTo({Param(n, "empty", k) : n \in SigNames, k \in {"pos", "var"}},
                     MaxParams) :
        /\ \A x, y \in 1..Len(ps) : x # y => ps[x].name # ps[y].name
        /\ \A x, y \in 1..Len(ps) : (x < y /\ ps[x].kind = "var") => ps[y].kind = "var"
        /\ Cardinality({x \in 1..Len(ps) : ps[x].kind = "var"}) <= 2}

SigInit ==
    /\ sigParams \in Signatures
    /\ sigCount \in 0..MaxCount
    /\ sigResult = [kind |-> "unset"]
    /\ GenQuiet
    /\ FmtIdle
    /\ DocIdle

\* _extract_parameters_names(handler, parameters_count, method), called twice
ExtractNames ==
    /\ sigResult.kind = "unset"
    /\ sigResult' = [kind |-> "names",
                     names |-> ExtractParametersNames(FullArgSpecArgs(sigParams), sigCount),
                     again |-> ExtractParametersNames(FullArgSpecArgs(sigParams), sigCount)]
    /\ UNCHANGED <<sigParams, sigCount, genVars, fmtVars, docVars>>

SigNext == ExtractNames

SigSpec == SigInit /\ [][SigNext]_vars

\* ==================================================================== claims
\* ---- what the claims say, stated apart from the program's own operators ----

\* the position of the ")" that closes the "(" at position n
ClosingParen(p, n) ==
    Min({m \in (n + 1)..Len(p) : Depth(p, m) = Depth(p, n - 1)})

\* the capturing "(" of p at positions from..to
CapturingOpens(p, from, to) ==
    {n \in from..to : p[n] = "(" /\ ~(n < Len(p) /\ p[n + 1] = "?:")}

\* p from position n on, with every capturing group replaced by the braced
\* name of its index; g capturing groups open before n
RECURSIVE SubstituteGroups(_, _, _, _)
SubstituteGroups(p, names, n, g) ==
    IF n > Len(p) THEN <<>>
    ELSE IF p[n] # "(" THEN <<p[n]>> \o SubstituteGroups(p, names, n + 1, g)
    ELSE LET c == ClosingParen(p, n)
             inside == Cardinality(CapturingOpens(p, n, c)) IN
         IF n \in CapturingOpens(p, n, n)
         THEN Braced(names[g + 1]) \o SubstituteGroups(p, names, c + 1, g + inside)
         ELSE SubSeq(p, n, c) \o SubstituteGroups(p, names, c + 1, g + inside)

\* the number of braced placeholders of a path: its "{" that start one
PlaceholderCount(path) ==
    Cardinality({n \in 1..Len(path) : path[n] = "{" /\ (n = 1 \/ path[n - 1] # "{")})

\* C1: whenever the path formatter returns a path for a pattern with N
\* capturing groups and N recovered names, the path is the raw pattern with
\* the i-th group replaced by "{name_i}" and its last character removed; it
\* has exactly N braced placeholders and no parenthesis of a group is left.
C1_FormattedPath ==
    fmtResult.kind = "path" =>
        LET N == Cardinality(CapturingOpens(fmtPattern, 1, Len(fmtPattern)))
            names == ExtractParametersNames(fmtArgs, N)
            claimed == SubstituteGroups(fmtPattern, names, 1, 0) IN
        /\ fmtResult.path = SubSeq(claimed, 1, Len(claimed) - 1)
        /\ PlaceholderCount(fmtResult.path) = N
        /\ \A n \in 1..Len(fmtResult.path) : fmtResult.path[n] \notin {"(", ")"}

\* the example of C1: '/items/(?P<item_id>[0-9]+)' with get(self, item_id)
C1_ExampleFormatted ==
    (fmtPattern = URLSpecPattern(ExamplePattern) /\ fmtArgs = <<<<"item_id">>>>
        /\ fmtResult.kind # "unset")
    => fmtResult = [kind |-> "path", path |-> <<"/items/", "{", "item_id", "}">>]

\* the number of group segments of the route's pattern differs from the
\* number of names recovered for the method
Mismatch(route, method) ==
    Len(FindAllBrackets(route.pattern, 1))
        # Len(ExtractParametersNames(TryExtractArgs(route.target, method),
                                     RegexGroups(route.pattern)))

\* the paths mapping as the running call has it, or as the document returned it
CurrentPaths == IF result.kind = "doc" THEN result.doc.paths ELSE paths

\* C2: a route/method with a group-count mismatch gets no entry in the paths
\* mapping (every entry belongs to a route/method without mismatch), a
\* warning is emitted for it, and the generation goes on to return a
\* document: a call with a recognized dialect does not raise.
C2_MismatchSkipped ==
    /\ \A p \in DOMAIN CurrentPaths : \A m \in DOMAIN CurrentPaths[p] :
          \E k \in 1..Len(routes) :
             /\ ~Mismatch(routes[k], m)
             /\ FormatHandlerPath(routes[k].pattern,
                                  TryExtractArgs(routes[k].target, m)).kind = "path"
             /\ FormatHandlerPath(routes[k].pattern,
                                  TryExtractArgs(routes[k].target, m)).path = p
    /\ (pc = "done" /\ dialect # PydanticSchema
          /\ \E k \in 1..Len(routes) : \E m \in DOMAIN BuildDocFromFuncDoc(routes[k].target) :
                Mismatch(routes[k], m))
       => warnings > 0
    /\ (dialect \in {SwaggerSchema, OpenApiSchema, PydanticSchema}
          /\ \E k \in 1..Len(routes) : \E n \in 1..Len(Methods) : Mismatch(routes[k], Methods[n]))
       => pc # "raised"

\* C3: a call with a dialect identifier that is none of the three registered
\* ones raises ValueError naming the identifier, before any route is
\* processed and any registry exported, and returns no document.
C3_UnknownDialectRaises ==
    (pass > 0 /\ dialect \notin {SwaggerSchema, OpenApiSchema, PydanticSchema}) =>
        /\ pc = "raised"
        /\ result.kind = "error"
        /\ result.type = "ValueError"
        /\ result.message = <<"Unknown api_definition_version = ", dialect>>
        /\ exported = 0
        /\ i = 1 /\ paths = EmptyDict /\ components = FreshComponents
        /\ warnings = 0 /\ schema_cache = FreshCache

C3_Witness ==
    /\ pass = 1 /\ dialect = "not-a-real-dialect" /\ Len(routes) = MaxRoutes
    /\ pc = "raised" /\ result.kind = "error"

\* components.schemas of a document of the model-declaration dialect, each
\* fragment given by what it holds
SchemasView(doc) ==
    [n \in DOMAIN doc.components.schemas |->
        FragmentView(schema_cache, doc.components.schemas[n])]

\* two documents of the call's dialect are equal
SameDocument(a, b) ==
    IF dialect = PydanticSchema
    THEN /\ DOMAIN a = DOMAIN b
         /\ \A key \in DOMAIN a \ {"components"} : a[key] = b[key]
         /\ a.components.parameters = b.components.parameters
         /\ SchemasView(a) = SchemasView(b)
    ELSE a = b

\* C4: two calls in one process with the same route list, metadata and
\* dialect return equal documents.
C4_Idempotent ==
    (result.kind = "doc" /\ prev.kind = "doc") => SameDocument(result.doc, prev.doc)

\* C5: within a pass of the model-declaration dialect a name registered in
\* components.schemas keeps its fragment through every later step, and the
\* document returned holds the accumulated schemas.
C5_FirstWriteWins ==
    [][(pc = "pydantic" /\ pass' = pass) =>
          /\ \A n \in DOMAIN components.schemas :
                /\ n \in DOMAIN components'.schemas
                /\ components'.schemas[n] = components.schemas[n]
                /\ FragmentView(schema_cache', components'.schemas[n])
                      = FragmentView(schema_cache, components.schemas[n])
          /\ pc' = "done" => result'.doc.components.schemas = components.schemas]_vars

\* two classes named ErrorResponse were processed, the first one registered
C5_Witness ==
    /\ pc = "done" /\ dialect = PydanticSchema
    /\ "ErrorResponse" \in DOMAIN result.doc.components.schemas
    /\ result.doc.components.schemas["ErrorResponse"] = SpecObject("ErrorResponse")
    /\ \E k \in 1..Len(routes) : routes[k].target = "ReportHandler"

\* the method's docstring exists and contains the separator
DocWithSeparator(handler, method) ==
    LET doc == HandlerTable[handler][method].doc IN
    doc.has /\ \E n \in 1..Len(doc.lines) : doc.lines[n] = "sep"

\* the lines after the first separator are mapping entries only (with at
\* most a document marker before them)
ParsableBlock(lines) ==
    LET first == CHOOSE n \in 1..Len(lines) :
                    lines[n] = "sep" /\ \A m \in 1..(n - 1) : lines[m] # "sep"
        block == SubSeq(lines, first + 1, Len(lines))
        body == IF Len(block) > 0 /\ block[1] = "sep" THEN Tail(block) ELSE block IN
    Len(body) > 0 /\ \A n \in 1..Len(body) : body[n] = "map"

\* the formatted path of route k for method m is p
FormatsTo(k, m, p) ==
    /\ ~Mismatch(routes[k], m)
    /\ FormatHandlerPath(routes[k].pattern, TryExtractArgs(routes[k].target, m))
          = [kind |-> "path", path |-> p]

\* C6: in a document of the docstring-based dialects, a method of a route
\* (whose path formats) has an operation if and only if its docstring exists
\* and contains the separator; the operation is the fallback fragment when
\* the block after the separator is unparsable.
C6_DocstringOperations ==
    (result.kind = "doc" /\ dialect \in {SwaggerSchema, OpenApiSchema}) =>
        LET docPaths == result.doc.paths IN
        /\ \A k \in 1..Len(routes) : \A n \in 1..Len(Methods) : \A p \in DOMAIN docPaths :
              (FormatsTo(k, Methods[n], p) /\ DocWithSeparator(routes[k].target, Methods[n]))
                 => Methods[n] \in DOMAIN docPaths[p]
        /\ \A k \in 1..Len(routes) : \A n \in 1..Len(Methods) :
              (~Mismatch(routes[k], Methods[n])
                  /\ DocWithSeparator(routes[k].target, Methods[n]))
                 => \E p \in DOMAIN docPaths : FormatsTo(k, Methods[n], p)
        /\ \A p \in DOMAIN docPaths : \A m \in DOMAIN docPaths[p] :
              \E k \in 1..Len(routes) :
                 /\ FormatsTo(k, m, p)
                 /\ DocWithSeparator(routes[k].target, m)
                 /\ ParsableBlock(HandlerTable[routes[k].target][m].doc.lines)
                       <=> docPaths[p][m] # FallbackFragment
                 /\ ~ParsableBlock(HandlerTable[routes[k].target][m].doc.lines)
                       => docPaths[p][m] = FallbackFragment

\* a docstring with an unparsable block gave the fallback, one without
\* separator gave nothing
C6_Witness ==
    /\ result.kind = "doc" /\ dialect = SwaggerSchema
    /\ <<"/nomodel">> \in DOMAIN result.doc.paths
    /\ result.doc.paths[<<"/nomodel">>] = [get |-> FallbackFragment]
    /\ <<"/items/", "{", "item_id", "}">> \in DOMAIN result.doc.paths
    /\ DOMAIN result.doc.paths[<<"/items/", "{", "item_id", "}">>] = {"get"}

\* the input was supplied: it is neither None nor empty
Supplied(v) == v # "None" /\ v # "" /\ v # "[]" /\ v # "{}"

\* C7: the top-level keys of the document are fixed by the dialect and by the
\* optional inputs supplied.
C7_DocumentKeys ==
    result.kind = "doc" =>
        LET doc == result.doc
            optional == (IF Supplied(meta.security_definitions)
                         THEN {"securityDefinitions"} ELSE {})
                        \cup (IF Supplied(meta.security) THEN {"security"} ELSE {}) IN
        /\ dialect = SwaggerSchema =>
              /\ DOMAIN doc = {"swagger", "info", "basePath", "schemes", "definitions",
                               "parameters", "paths"} \cup optional
              /\ doc.swagger = "2.0"
        /\ dialect \in {OpenApiSchema, PydanticSchema} =>
              /\ DOMAIN doc = {"openapi", "info", "servers", "components", "paths"}
                                 \cup optional
              /\ doc.openapi = "3.0.3"
              /\ doc.servers = <<[url |-> meta.api_base_url]>>
              /\ DOMAIN doc.components = {"schemas", "parameters"}
        /\ DOMAIN doc.info = {"title", "description", "version"}
                             \cup (IF Supplied(meta.contact) THEN {"contact"} ELSE {})
        /\ Supplied(meta.contact) => doc.info.contact = [name |-> meta.contact]
        /\ Supplied(meta.security_definitions)
              => doc.securityDefinitions = meta.security_definitions
        /\ Supplied(meta.security) => doc.security = meta.security

C7_Witness ==
    /\ result.kind = "doc" /\ dialect = SwaggerSchema
    /\ meta.contact = "name@domain" /\ meta.security = "[]"
    /\ meta.security_definitions = "{api_key}"
    /\ Len(routes) > 0

\* C8: for any route list and any recognized dialect the call returns a
\* document; only an unrecognized dialect identifier makes it raise.
C8_FailuresContained ==
    (pass > 0 /\ dialect \in {SwaggerSchema, OpenApiSchema, PydanticSchema})
       => pc # "raised"

\* the method carries attached Swagger Method Info
HasSwaggerInfo(handler, method) == HandlerTable[handler][method].info.has

\* the operation of method m under path p of the document
Emitted(k, m) ==
    \E p \in DOMAIN result.doc.paths :
        FormatsTo(k, m, p) /\ m \in DOMAIN result.doc.paths[p]

\* C9 as claimed: the annotation source is selected per method, so in the
\* document every method (of a route whose path formats) that carries
\* Swagger Method Info or a docstring with the separator has an operation.
C9_SourcePerMethod ==
    result.kind = "doc" =>
        \A k \in 1..Len(routes) : \A n \in 1..Len(Methods) :
            (~Mismatch(routes[k], Methods[n])
                /\ (HasSwaggerInfo(routes[k].target, Methods[n])
                       \/ DocWithSeparator(routes[k].target, Methods[n])))
               => Emitted(k, Methods[n])

\* the annotation source the dialect of the call reads
DialectSource(handler, method) ==
    IF dialect = PydanticSchema THEN HasSwaggerInfo(handler, method)
    ELSE DocWithSeparator(handler, method)

\* C9 amended: the annotation source is selected by the dialect, not per
\* method.  In a document of the model-declaration dialect exactly the
\* methods carrying Swagger Method Info have an operation (built from the
\* info), in a document of the legacy and the reference dialects exactly the
\* methods whose docstring contains the separator (built from the docstring),
\* in both cases for the routes whose path formats.
C9_SourceByDialect ==
    result.kind = "doc" =>
        /\ \A k \in 1..Len(routes) : \A n \in 1..Len(Methods) :
              (~Mismatch(routes[k], Methods[n])
                  /\ DialectSource(routes[k].target, Methods[n]))
                 => Emitted(k, Methods[n])
        /\ \A p \in DOMAIN result.doc.paths : \A m \in DOMAIN result.doc.paths[p] :
              /\ \E k \in 1..Len(routes) :
                    FormatsTo(k, m, p) /\ DialectSource(routes[k].target, m)
              /\ dialect = PydanticSchema <=> "responses" \in DOMAIN result.doc.paths[p][m]

\* a handler with an info-only get and a docstring-only post, in the
\* model-declaration dialect: only get has an operation
C9_Witness ==
    /\ result.kind = "doc" /\ dialect = PydanticSchema
    /\ <<"/status">> \in DOMAIN result.doc.paths
    /\ DOMAIN result.doc.paths[<<"/status">>] = {"get"}

\* the description C10 gives a response entry
ClaimedDescription(code, description) ==
    IF description # "None" /\ description # "" THEN description
    ELSE CASE code < 400 -> "Successful Response"
           [] code >= 400 /\ code <= 499 -> "Bad request"
           [] code >= 500 -> "Internal Server Error"

\* the responses of operation op are described as C10 says, for the
\* response entries of the method's Swagger Method Info
DescribedAsClaimed(op, handler, method) ==
    LET entries == HandlerTable[handler][method].info.responses IN
    /\ HasSwaggerInfo(handler, method)
    /\ \A n \in 1..Len(entries) :
          /\ entries[n].code \in DOMAIN op.responses
          /\ op.responses[entries[n].code].description
                = ClaimedDescription(entries[n].code, entries[n].description)

\* C10: every response of a model-based operation, as built and as emitted,
\* carries its own description when it supplies one and the description
\* derived from its status code otherwise.
C10_DefaultDescriptions ==
    dialect = PydanticSchema =>
        /\ (pc = "pydantic" /\ i <= Len(routes)) =>
              \A m \in DOMAIN out : DescribedAsClaimed(out[m], routes[i].target, m)
        /\ \A p \in DOMAIN CurrentPaths : \A m \in DOMAIN CurrentPaths[p] :
              \E k \in 1..Len(routes) :
                 /\ FormatsTo(k, m, p)
                 /\ DescribedAsClaimed(CurrentPaths[p][m], routes[k].target, m)

C10_Witness ==
    /\ result.kind = "doc" /\ dialect = PydanticSchema
    /\ <<"/report/", "{", "year", "}">> \in DOMAIN result.doc.paths
    /\ LET r == result.doc.paths[<<"/report/", "{", "year", "}">>]["get"].responses IN
          /\ r[399].description = "Successful Response"
          /\ r[400].description = "Bad request"
          /\ r[499].description = "Bad request"
          /\ r[500].description = "Internal Server Error"
    /\ \E p \in DOMAIN result.doc.paths :
          /\ "post" \in DOMAIN result.doc.paths[p]
          /\ result.doc.paths[p]["post"].responses[400].description
                = "Error will be raised for negative result"

\* the text after the first line holding the separator, tabs replaced
BlockAfterSeparator(lines) ==
    LET first == CHOOSE n \in 1..Len(lines) :
                    lines[n] = "sep" /\ \A m \in 1..(n - 1) : lines[m] # "sep"
        block == SubSeq(lines, first + 1, Len(lines)) IN
    [n \in 1..Len(block) |-> IF block[n] = "tab" THEN "map" ELSE block[n]]

\* the block is one yaml document holding a mapping: mapping entries only,
\* with at most a document marker before them
ParsesToMapping(block) ==
    LET body == IF Len(block) > 0 /\ block[1] = "sep" THEN Tail(block) ELSE block IN
    Len(body) > 0 /\ \A n \in 1..Len(body) : body[n] = "map"

SomeSeparatorLine(lines) == \E n \in 1..Len(lines) : lines[n] = "sep"

\* what the claim says build_swagger_docs returns for the text
ClaimedDocs(lines) ==
    IF ~SomeSeparatorLine(lines) THEN FallbackFragment
    ELSE IF ~ParsesToMapping(BlockAfterSeparator(lines)) THEN FallbackFragment
    ELSE [mapping |-> SelectSeq(BlockAfterSeparator(lines), LAMBDA l : l = "map")]

\* C11: for any documentation text, build_swagger_docs returns the fallback
\* fragment when the text has no separator line or the text after the first
\* one (tabs replaced) does not parse to a mapping, and the parsed mapping
\* otherwise; the call changes nothing else.
C11_FallbackOrMapping ==
    docResult.kind = "returned" =>
        /\ docResult.value = ClaimedDocs(docText)
        /\ warnings = 0 /\ exported = 0 /\ pc = "idle"

\* the same, for the texts that have a separator line
C11_WithSeparator ==
    (docResult.kind = "returned" /\ SomeSeparatorLine(docText)) =>
        /\ docResult.value = ClaimedDocs(docText)
        /\ warnings = 0 /\ exported = 0 /\ pc = "idle"

\* the name is made of underscore characters only
AllUnderscores(name) == Len(name) > 0 /\ \A k \in 1..Len(name) : name[k] = "_"

\* the positional arguments the method declares after the first, in order
DeclaredAfterFirst(params) ==
    LET at == {k \in 1..Len(params) : params[k].kind = "pos"} IN
    [n \in 1..Cardinality(at) |->
        params[CHOOSE k \in at : Cardinality({h \in at : h <= k}) = n].name]

\* C12: _extract_parameters_names returns exactly N entries; entry n is the
\* n-th declared argument name after the first when it exists and is not made
\* of underscores only, and "{?}" otherwise; no all-underscore name is in the
\* result, arguments beyond the N-th are ignored, and a second call gives the
\* same list.
C12_ParameterNames ==
    sigResult.kind = "names" =>
        LET declared == DeclaredAfterFirst(sigParams) IN
        /\ Len(sigResult.names) = sigCount
        /\ \A n \in 1..sigCount :
              sigResult.names[n] =
                 IF n <= Len(declared) /\ ~AllUnderscores(declared[n])
                 THEN declared[n] ELSE <<"{", "?", "}">>
        /\ \A n \in 1..Len(sigResult.names) : ~AllUnderscores(sigResult.names[n])
        /\ sigResult.again = sigResult.names

\* get(self, _, a, b, *args) asked for three names, and for two
C12_Witness ==
    /\ sigResult.kind = "names"
    /\ \/ /\ sigCount = 3
          /\ Len(sigParams) = 3
          /\ sigParams[1].name = <<"_">> /\ sigParams[1].kind = "pos"
          /\ sigParams[2].name = <<"a">> /\ sigParams[2].kind = "pos"
          /\ sigParams[3].kind = "var"
          /\ sigResult.names = <<<<"{", "?", "}">>, <<"a">>, <<"{", "?", "}">>>>
       \/ /\ sigCount = 1
          /\ Len(sigParams) = 2
          /\ sigParams[1].name = <<"_", "a">> /\ sigParams[1].kind = "pos"
          /\ sigParams[2].kind = "pos"
          /\ sigResult.names = <<<<"_", "a">>>>

\* the names between the braces of a path, left to right, from position `from`
RECURSIVE PlaceholderNames(_, _)
PlaceholderNames(path, from) ==
    LET opens == {n \in from..Len(path) : path[n] = "{"} IN
    IF opens = {} THEN <<>>
    ELSE LET o == Min(opens)
             closes == {n \in (o + 1)..Len(path) : path[n] = "}"} IN
         IF closes = {} THEN <<>>
         ELSE LET c == Min(closes) IN
              <<SubSeq(path, o + 1, c - 1)>> \o PlaceholderNames(path, c + 1)

\* the parameters of an operation that are located in the path
PathParameters(operation) ==
    IF "parameters" \in DOMAIN operation
    THEN SelectSeq(operation.parameters, LAMBDA q : q.in = "path")
    ELSE <<>>

\* C13: in the model-declaration dialect every operation under a path lists
\* as many 'path' parameters as the path has braced placeholders, named as the
\* placeholders are and in their order, each marked required.
C13_PathParametersAgree ==
    dialect = PydanticSchema =>
        \A p \in DOMAIN CurrentPaths : \A m \in DOMAIN CurrentPaths[p] :
            LET listed == PathParameters(CurrentPaths[p][m])
                names == PlaceholderNames(p, 1) IN
            /\ Len(listed) = Len(names)
            /\ \A n \in 1..Len(listed) :
                  /\ n <= Len(names) => listed[n].name = names[n]
                  /\ listed[n].required

\* the decorated methods of a handler, in the order they are processed
DecoratedMethods(handler) ==
    SelectSeq(Methods, LAMBDA m : HandlerTable[handler][m].info.has)

\* the names a decorated method brings to components.schemas: its response
\* models, and the definitions nested in its request and response models
ResponseModelNames(info) ==
    {ModelTable[info.responses[n].model.cls].name :
        n \in {x \in 1..Len(info.responses) : info.responses[x].model.has}}

NestedDefinitionNames(info) ==
    LET classes == {info.responses[n].model.cls :
                       n \in {x \in 1..Len(info.responses) : info.responses[x].model.has}}
                   \cup (IF info.request.has THEN {info.request.cls} ELSE {}) IN
    UNION {{ModelTable[d].name : d \in Range(ModelTable[c].definitions)} : c \in classes}

\* every entry of the paths mapping belongs to a route/method the formatter accepts
OnlyAcceptedRoutesInPaths ==
    \A p \in DOMAIN CurrentPaths : \A m \in DOMAIN CurrentPaths[p] :
        \E k \in 1..Len(routes) : FormatsTo(k, m, p)

\* the first response model of the first decorated method of the first route
\* holds its name (no request model of that method registered it before)
FirstRouteWins(schemas) ==
    (Len(routes) > 0 /\ DecoratedMethods(routes[1].target) # <<>>) =>
        LET info == HandlerTable[routes[1].target][DecoratedMethods(routes[1].target)[1]].info
            c == info.responses[1].model.cls IN
        (~info.request.has /\ info.responses[1].model.has) =>
            /\ ModelTable[c].name \in DOMAIN schemas
            /\ schemas[ModelTable[c].name] = [cls |-> c, byRef |-> TRUE]

\* C14: in the model-declaration dialect a route/method the formatter rejects
\* has no entry in the paths mapping, yet after a pass components.schemas
\* holds the name of every response model and of every nested definition of
\* the request and response models of every decorated method of every route,
\* skipped or not, and the first route, skipped or not, wins a collision.
C14_SkippedRoutesRegister ==
    dialect = PydanticSchema =>
        /\ OnlyAcceptedRoutesInPaths
        /\ result.kind = "doc" =>
              LET schemas == result.doc.components.schemas IN
              /\ \A k \in 1..Len(routes) : \A m \in Range(DecoratedMethods(routes[k].target)) :
                    LET info == HandlerTable[routes[k].target][m].info IN
                    /\ ResponseModelNames(info) \subseteq DOMAIN schemas
                    /\ NestedDefinitionNames(info) \subseteq DOMAIN schemas
              /\ FirstRouteWins(schemas)

\* the same, for the first pass of a process
C14_FirstPass ==
    pass <= 1 => C14_SkippedRoutesRegister

\* the same without the nested definitions, for every pass
C14_ResponseModelsOnly ==
    dialect = PydanticSchema =>
        /\ OnlyAcceptedRoutesInPaths
        /\ result.kind = "doc" =>
              LET schemas == result.doc.components.schemas IN
              /\ \A k \in 1..Len(routes) : \A m \in Range(DecoratedMethods(routes[k].target)) :
                    ResponseModelNames(HandlerTable[routes[k].target][m].info)
                        \subseteq DOMAIN schemas
              /\ FirstRouteWins(schemas)

====
